---- MODULE Spec2Model ----
(***************************************************************************)
(* todo-cli: the library version of the program (src/src/models.rs,        *)
(* storage.rs, display.rs, commands/*.rs), and the comparator of the       *)
(* single-file version (src/src/main.rs).  The persisted file todos.json   *)
(* is the only state that survives an invocation; every command is one     *)
(* load / transform / save step on it.                                     *)
(*                                                                         *)
(* Values.  An Option<T> is a sequence: None is << >>, Some(v) is <<v>>.   *)
(* A JSON field of a persisted record is an option of its value: << >> is  *)
(* a field the record does not have.  created_at is an instant (integer);  *)
(* a NaiveDate is a day number.                                            *)
(***************************************************************************)
EXTENDS Integers, Sequences, FiniteSets, TLC

VARIABLES
    file,      \* todos.json: [exists, records], records a sequence of JSON records
    cmd,       \* the last command run: [op, id, sort, active_only, min_priority, confirmed]
    result,    \* what that command returned: "none" (nothing run yet), "ok", "err"
    shown,     \* the sequence that command handed to display_todos (<< >> if it displayed nothing)
    retired,   \* history: the ids of the todos removed so far (kept by SpecIds), the
               \* ids of the todos wiped by clear so far (kept by SpecClear)
    inputs,    \* history, kept by SpecLoad only: the files load_todos has been called on
    procs,     \* SpecRace only: the two concurrent add processes, [pc, todos, new_id] each
    call       \* the specifications of the pure functions only: [fn, args, ret]

vars == <<file, cmd, result, shown, retired, inputs, procs, call>>

\* ---------------------------------------------------------------- bounds
MaxLen == 2         \* todos in a collection given to list
MaxTodos == 2       \* todos in the store of the command life cycle
MaxId == 3          \* largest id add may assign in the command life cycle
MaxTime == 2        \* instants 1..MaxTime
MaxDate == 2        \* days 1..MaxDate that can be typed as a due date
TicksPerDay == 2    \* instants per day (resolution of the clock)
MaxDay == 9         \* days 0..MaxDay given to format_due_date, as due date and as today

Times == 1..MaxTime
Dates == 1..MaxDate
Titles == {"task"}

\* ---------------------------------------------------------------- Option
None == << >>
Some(v) == <<v>>
IsSome(o) == o # None
Unwrap(o) == o[1]

\* ---------------------------------------------------------------- Priority
Priority == {"Low", "Normal", "High", "Urgent"}

\* derive(PartialOrd, Ord) on the enum: the order of the variants' declaration
PriorityRank(p) ==
    CASE p = "Low" -> 0
      [] p = "Normal" -> 1
      [] p = "High" -> 2
      [] p = "Urgent" -> 3

PriorityDefault == "Normal"

\* ---------------------------------------------------------------- Ordering
\* Ordering::reverse left out
ReverseForgotten(o) == o

Reverse(o) ==
    CASE o = "Less" -> "Greater"
      [] o = "Greater" -> "Less"
      [] OTHER -> "Equal"

CmpInt(a, b) == IF a < b THEN "Less" ELSE IF a > b THEN "Greater" ELSE "Equal"

PriorityCmp(p, q) == CmpInt(PriorityRank(p), PriorityRank(q))

\* the two mixed arms swapped: a todo without a due date first
DueCmpNoneFirst(a, b, bothNone) ==
    CASE IsSome(a) /\ IsSome(b) -> CmpInt(Unwrap(a), Unwrap(b))
      [] IsSome(a) /\ ~IsSome(b) -> "Greater"
      [] ~IsSome(a) /\ IsSome(b) -> "Less"
      [] OTHER -> bothNone

\* the (Option<NaiveDate>, Option<NaiveDate>) match shared by the comparators,
\* with the ordering of two absent dates left to the caller
DueCmp(a, b, bothNone) ==
    CASE IsSome(a) /\ IsSome(b) -> CmpInt(Unwrap(a), Unwrap(b))
      [] IsSome(a) /\ ~IsSome(b) -> "Less"
      [] ~IsSome(a) /\ IsSome(b) -> "Greater"
      [] OTHER -> bothNone

\* the completion arms left out: priority is the first key
TodoCmpNoStatus(a, b) ==
    LET byPriority == Reverse(PriorityCmp(a.priority, b.priority))
    IN  IF byPriority = "Equal"
        THEN DueCmp(a.due_date, b.due_date, CmpInt(a.created_at, b.created_at))
        ELSE byPriority

\* impl Ord for Todo (models.rs)
TodoCmp(a, b) ==
    IF a.completed /\ ~b.completed THEN "Greater"
    ELSE IF ~a.completed /\ b.completed THEN "Less"
    ELSE LET byPriority == Reverse(PriorityCmp(a.priority, b.priority))
         IN  IF byPriority = "Equal"
             THEN DueCmp(a.due_date, b.due_date, CmpInt(a.created_at, b.created_at))
             ELSE byPriority

\* ---------------------------------------------------------------- sorting
SortOrder == {"Smart", "Due", "Priority", "Created"}

\* the comparator list_todos sorts with under each --sort value (commands/list.rs)
Compare(order, a, b) ==
    CASE order = "Smart" -> TodoCmp(a, b)
      [] order = "Due" -> DueCmp(a.due_date, b.due_date, TodoCmp(a, b))
      [] order = "Priority" ->
            LET byPriority == PriorityCmp(b.priority, a.priority)
            IN  IF byPriority = "Equal" THEN TodoCmp(a, b) ELSE byPriority
      [] order = "Created" -> CmpInt(a.created_at, b.created_at)

\* slice::sort / sort_by: a stable sort.  For the short slices of the model it is
\* the insertion sort of the standard library: each element in turn moves left
\* past the elements it is strictly less than.
\* an unstable insertion: the element also moves past the elements it equals
RECURSIVE InsertPosUnstable(_, _, _, _)
InsertPosUnstable(order, s, x, i) ==
    IF i >= 1 /\ Compare(order, x, s[i]) # "Greater"
    THEN InsertPosUnstable(order, s, x, i - 1)
    ELSE i

RECURSIVE InsertPos(_, _, _, _)
InsertPos(order, s, x, i) ==
    IF i >= 1 /\ Compare(order, x, s[i]) = "Less"
    THEN InsertPos(order, s, x, i - 1)
    ELSE i

InsertTail(order, s, x) ==
    LET i == InsertPos(order, s, x, Len(s))
    IN  SubSeq(s, 1, i) \o <<x>> \o SubSeq(s, i + 1, Len(s))

RECURSIVE SortBy(_, _)
SortBy(order, s) ==
    IF s = << >> THEN << >>
    ELSE InsertTail(order, SortBy(order, SubSeq(s, 1, Len(s) - 1)), s[Len(s)])

\* ---------------------------------------------------------------- storage
\* created_at not written
ToJsonNoCreatedAt(t) ==
    [id |-> t.id, title |-> t.title, completed |-> t.completed,
     created_at |-> None, due_date |-> Some(t.due_date),
     priority |-> Some(t.priority)]

\* serde_json::to_string_pretty of one Todo: every field is written, an absent
\* due date as null
ToJson(t) ==
    [id |-> t.id, title |-> t.title, completed |-> t.completed,
     created_at |-> Some(t.created_at), due_date |-> Some(t.due_date),
     priority |-> Some(t.priority)]

\* Deserialize for Todo: created_at is required, a missing or null due_date is
\* None, a missing priority is the default (#[serde(default)])
ParsesAsTodo(r) == IsSome(r.created_at)

FromJson(r) ==
    [id |-> r.id, title |-> r.title, completed |-> r.completed,
     created_at |-> Unwrap(r.created_at),
     due_date |-> IF IsSome(r.due_date) THEN Unwrap(r.due_date) ELSE None,
     priority |-> IF IsSome(r.priority) THEN Unwrap(r.priority) ELSE PriorityDefault]

\* the conversion of one LegacyTodo: only id, title and completed are read
FromLegacy(r, now) ==
    [id |-> r.id, title |-> r.title, completed |-> r.completed,
     created_at |-> now, due_date |-> None, priority |-> "Normal"]

SaveTodos(todos) ==
    [exists |-> TRUE, records |-> [i \in 1..Len(todos) |-> ToJson(todos[i])]]

NoFile == [exists |-> FALSE, records |-> << >>]

\* load_todos: what it can return and what it then leaves in the file.  The
\* clock is read only on the legacy path, once for each migrated todo.
\* Every record of the model has id, title and completed, so the file parses
\* under the current schema (every record has created_at) or else under the
\* legacy one; read and parse failures, which end the command, are left out.
LoadTodos(f) ==
    IF ~f.exists THEN {[todos |-> << >>, file |-> f]}
    ELSE IF \A i \in 1..Len(f.records) : ParsesAsTodo(f.records[i])
    THEN {[todos |-> [i \in 1..Len(f.records) |-> FromJson(f.records[i])], file |-> f]}
    ELSE {LET todos == [i \in 1..Len(f.records) |-> FromLegacy(f.records[i], nows[i])]
          IN  [todos |-> todos, file |-> SaveTodos(todos)] :
                 nows \in [1..Len(f.records) -> Times]}

\* ---------------------------------------------------------------- list
FilterActive(todos) == SelectSeq(todos, LAMBDA t : ~t.completed)

\* a strict threshold: > instead of >=
FilterMinPriorityStrict(todos, min_prio) ==
    SelectSeq(todos, LAMBDA t : PriorityRank(t.priority) > PriorityRank(min_prio))

FilterMinPriority(todos, min_prio) ==
    SelectSeq(todos, LAMBDA t : PriorityRank(t.priority) >= PriorityRank(min_prio))

\* the sequence list_todos displays
Listed(todos, sort_order, active_only, min_priority) ==
    LET afterActive == IF active_only THEN FilterActive(todos) ELSE todos
        afterPriority == IF IsSome(min_priority)
                         THEN FilterMinPriority(afterActive, Unwrap(min_priority))
                         ELSE afterActive
    IN  SortBy(sort_order, afterPriority)

NoCmd ==
    [op |-> "none", id |-> 0, sort |-> "", active_only |-> FALSE, min_priority |-> None,
     confirmed |-> FALSE]

ListTodos(sort_order, active_only, min_priority) ==
    \E loaded \in LoadTodos(file) :
        /\ file' = loaded.file
        /\ shown' = Listed(loaded.todos, sort_order, active_only, min_priority)
        /\ result' = "ok"
        /\ cmd' = [NoCmd EXCEPT !.op = "list", !.sort = sort_order,
                                !.active_only = active_only,
                                !.min_priority = min_priority]

\* ---------------------------------------------------------------- commands
\* the two processes of a concurrent run, before they start
Procs == {1, 2}

NoProcs == [p \in Procs |-> [pc |-> "start", todos |-> << >>, new_id |-> 0]]

\* no pure function applied yet
NoCall == [fn |-> "none", args |-> << >>, ret |-> << >>]

Ids(todos) == {todos[i].id : i \in 1..Len(todos)}

MaxOf(S) == CHOOSE m \in S : \A x \in S : x <= m

\* the + 1 left out when the collection is not empty
NewIdNoIncrement(todos) == IF todos = << >> THEN 1 ELSE MaxOf(Ids(todos))

\* count + 1 instead of max + 1
NewIdByCount(todos) == Len(todos) + 1

\* the smallest id not in use: gaps are filled
NewIdFirstGap(todos) ==
    CHOOSE n \in 1..(Len(todos) + 1) :
        n \notin Ids(todos) /\ \A m \in 1..(n - 1) : m \in Ids(todos)

\* todos.iter().map(|t| t.id).max().unwrap_or(0) + 1 (ids stay far below the
\* u64 range: add is guarded by MaxId)
NewId(todos) == IF todos = << >> THEN 1 ELSE MaxOf(Ids(todos)) + 1

\* Local::now().date_naive()
DateNaive(now) == now \div TicksPerDay

\* --due: today, tomorrow or a date
Today == [kind |-> "Today", date |-> 0]
Tomorrow == [kind |-> "Tomorrow", date |-> 0]
DateInputs == {Today, Tomorrow} \cup {[kind |-> "Date", date |-> d] : d \in Dates}

DueDate(due, now) ==
    IF ~IsSome(due) THEN None
    ELSE LET d == Unwrap(due)
         IN  CASE d.kind = "Today" -> Some(DateNaive(now))
               [] d.kind = "Tomorrow" -> Some(DateNaive(now) + 1)
               [] d.kind = "Date" -> Some(d.date)

\* Todo::new
TodoNew(id, title, due_date, priority, now) ==
    [id |-> id, title |-> title, completed |-> FALSE, created_at |-> now,
     due_date |-> due_date, priority |-> priority]

\* the position of the first todo with this id, 0 if there is none
Find(todos, id) ==
    IF id \in Ids(todos)
    THEN CHOOSE i \in 1..Len(todos) :
            todos[i].id = id /\ \A j \in 1..(i - 1) : todos[j].id # id
    ELSE 0

\* add_todo: the store is capped at MaxTodos todos and ids at MaxId
AddTodo(title, due, priority, now) ==
    \E loaded \in LoadTodos(file) :
        LET new_id == NewId(loaded.todos)
            todo == TodoNew(new_id, title, DueDate(due, now), priority, now)
            todos == Append(loaded.todos, todo)
        IN  /\ Len(loaded.todos) < MaxTodos
            /\ new_id <= MaxId
            /\ file' = SaveTodos(todos)
            /\ shown' = todos
            /\ result' = "ok"
            /\ cmd' = [NoCmd EXCEPT !.op = "add", !.id = new_id]

\* an id that is not found reported as success, after a message
MarkDoneNotFoundOk(id) ==
    \E loaded \in LoadTodos(file) :
        LET i == Find(loaded.todos, id)
            todos == [loaded.todos EXCEPT ![i].completed = TRUE]
        IN  /\ cmd' = [NoCmd EXCEPT !.op = "done", !.id = id]
            /\ IF i = 0
               THEN file' = loaded.file /\ shown' = << >> /\ result' = "ok"
               ELSE IF loaded.todos[i].completed
               THEN file' = loaded.file /\ shown' = << >> /\ result' = "ok"
               ELSE file' = SaveTodos(todos) /\ shown' = todos /\ result' = "ok"

\* mark_done
MarkDone(id) ==
    \E loaded \in LoadTodos(file) :
        LET i == Find(loaded.todos, id)
            todos == [loaded.todos EXCEPT ![i].completed = TRUE]
        IN  /\ cmd' = [NoCmd EXCEPT !.op = "done", !.id = id]
            /\ IF i = 0
               THEN file' = loaded.file /\ shown' = << >> /\ result' = "err"
               ELSE IF loaded.todos[i].completed
               THEN file' = loaded.file /\ shown' = << >> /\ result' = "ok"
               ELSE file' = SaveTodos(todos) /\ shown' = todos /\ result' = "ok"

\* set_priority
SetPriority(id, new_priority) ==
    \E loaded \in LoadTodos(file) :
        LET i == Find(loaded.todos, id)
            todos == [loaded.todos EXCEPT ![i].priority = new_priority]
        IN  /\ cmd' = [NoCmd EXCEPT !.op = "priority", !.id = id]
            /\ IF i = 0
               THEN file' = loaded.file /\ shown' = << >> /\ result' = "err"
               ELSE IF loaded.todos[i].priority = new_priority
               THEN file' = loaded.file /\ shown' = loaded.todos /\ result' = "ok"
               ELSE file' = SaveTodos(todos) /\ shown' = todos /\ result' = "ok"

\* remove_todo
RemoveTodo(id) ==
    \E loaded \in LoadTodos(file) :
        LET todos == SelectSeq(loaded.todos, LAMBDA t : t.id # id)
        IN  /\ cmd' = [NoCmd EXCEPT !.op = "remove", !.id = id]
            /\ IF Len(todos) < Len(loaded.todos)
               THEN file' = SaveTodos(todos) /\ shown' = todos /\ result' = "ok"
               ELSE file' = loaded.file /\ shown' = << >> /\ result' = "err"

\* the answer at the prompt not looked at: every clear empties the store
ClearTodosNoPrompt(confirmed) ==
    /\ file' = SaveTodos(<< >>)
    /\ shown' = << >>
    /\ result' = "ok"
    /\ cmd' = [NoCmd EXCEPT !.op = "clear", !.confirmed = confirmed]

\* clear_todos: the answer typed at the prompt is "y" (any case) or anything else.
\* The file is not loaded; a confirmed clear displays the empty list.
ClearTodos(confirmed) ==
    /\ file' = IF confirmed THEN SaveTodos(<< >>) ELSE file
    /\ shown' = << >>
    /\ result' = "ok"
    /\ cmd' = [NoCmd EXCEPT !.op = "clear", !.confirmed = confirmed]

\* ---------------------------------------------------------------- the command life cycle
\* no todos.json yet: every file of this life cycle is written by the commands
Init ==
    /\ file = NoFile
    /\ cmd = NoCmd
    /\ result = "none"
    /\ shown = << >>
    /\ retired = {}
    /\ inputs = {}
    /\ procs = NoProcs
    /\ call = NoCall

IdArgs == 1..MaxId

DueArgs == {None, Some(Today), Some(Tomorrow)}

AnyAdd ==
    \E title \in Titles, due \in DueArgs, priority \in Priority, now \in Times :
        AddTodo(title, due, priority, now)

AnyRemove == \E id \in IdArgs : RemoveTodo(id)

Add == AnyAdd /\ UNCHANGED <<retired, inputs, procs, call>>

Done == (\E id \in IdArgs : MarkDone(id)) /\ UNCHANGED <<retired, inputs, procs, call>>

SetPrio ==
    (\E id \in IdArgs, new_priority \in Priority : SetPriority(id, new_priority))
        /\ UNCHANGED <<retired, inputs, procs, call>>

Remove == AnyRemove /\ UNCHANGED <<retired, inputs, procs, call>>

Clear == (\E confirmed \in BOOLEAN : ClearTodos(confirmed)) /\ UNCHANGED <<retired, inputs, procs, call>>

Next == Add \/ Done \/ SetPrio \/ Remove \/ Clear

Spec == Init /\ [][Next]_vars

\* the ids in the file
StoredIds == {file.records[i].id : i \in 1..Len(file.records)}

\* sequences of add and remove, with the history of the ids removed so far
Retire ==
    /\ retired' = retired \cup (StoredIds \ StoredIds')
    /\ UNCHANGED <<inputs, procs, call>>

AddLogged == AnyAdd /\ Retire

RemoveLogged == AnyRemove /\ Retire

NextIds == AddLogged \/ RemoveLogged

SpecIds == Init /\ [][NextIds]_vars

\* sequences of add, remove and clear, with the history of the ids clear wiped
ClearLogged == (\E confirmed \in BOOLEAN : ClearTodos(confirmed)) /\ Retire

NextClear == Add \/ Remove \/ ClearLogged

SpecClear == Init /\ [][NextClear]_vars

\* ---------------------------------------------------------------- list, on any collection
\* the todos a collection can hold: every combination of the fields the list
\* pipeline reads, with the ids 1..n in storage order
TodoBodies ==
    [title : Titles, completed : BOOLEAN, created_at : Times,
     due_date : {None} \cup {Some(d) : d \in Dates}, priority : Priority]

WithId(b, i) ==
    [id |-> i, title |-> b.title, completed |-> b.completed,
     created_at |-> b.created_at, due_date |-> b.due_date, priority |-> b.priority]

Collection(bs) == [i \in 1..Len(bs) |-> WithId(bs[i], i)]

InitList ==
    /\ \E n \in 0..MaxLen : \E bs \in [1..n -> TodoBodies] : file = SaveTodos(Collection(bs))
    /\ cmd = NoCmd
    /\ result = "none"
    /\ shown = << >>
    /\ retired = {}
    /\ inputs = {}
    /\ procs = NoProcs
    /\ call = NoCall

\* one list invocation on each collection drawn
NextList ==
    /\ cmd.op = "none"
    /\ UNCHANGED <<retired, inputs, procs, call>>
    /\ \E sort_order \in SortOrder, active_only \in BOOLEAN,
          min_priority \in {None} \cup {Some(p) : p \in Priority} :
           ListTodos(sort_order, active_only, min_priority)

SpecList == InitList /\ [][NextList]_vars

\* smart_order on any collection: list --sort smart with no filter
NextSmart ==
    /\ cmd.op = "none"
    /\ UNCHANGED <<retired, inputs, procs, call>>
    /\ ListTodos("Smart", FALSE, None)

SpecSmart == InitList /\ [][NextSmart]_vars

\* ---------------------------------------------------------------- the comparator of main.rs
\* Todo::priority_value (main.rs)
PriorityValue(p) ==
    CASE p = "Low" -> 1
      [] p = "Normal" -> 2
      [] p = "High" -> 3
      [] p = "Urgent" -> 4

\* Ord for bool: false < true
CmpBool(x, y) == IF x = y THEN "Equal" ELSE IF ~x THEN "Less" ELSE "Greater"

\* Ordering::then_with
ThenWith(o, next) == IF o = "Equal" THEN next ELSE o

\* impl Ord for Todo (main.rs)
MainTodoCmp(a, b) ==
    ThenWith(Reverse(CmpBool(a.completed, b.completed)),
    ThenWith(Reverse(CmpInt(PriorityValue(a.priority), PriorityValue(b.priority))),
    ThenWith(DueCmp(a.due_date, b.due_date, "Equal"),
             CmpInt(a.created_at, b.created_at))))

\* both comparators on every pair of todos
InitCmp ==
    /\ file = NoFile
    /\ cmd = NoCmd
    /\ result = "none"
    /\ shown = << >>
    /\ retired = {}
    /\ inputs = {}
    /\ procs = NoProcs
    /\ \E a, b \in TodoBodies : call = [NoCall EXCEPT !.args = <<WithId(a, 1), WithId(b, 2)>>]

CmpBoth ==
    /\ call.fn = "none"
    /\ call' = [fn |-> "cmp", args |-> call.args,
                ret |-> [main |-> MainTodoCmp(call.args[1], call.args[2]),
                         models |-> TodoCmp(call.args[1], call.args[2])]]
    /\ UNCHANGED <<file, cmd, result, shown, retired, inputs, procs>>

NextCmp == CmpBoth

SpecCmp == InitCmp /\ [][NextCmp]_vars

\* ---------------------------------------------------------------- two concurrent adds
\* add_todo up to the push of the new todo: load_todos, new_id, Todo::new and
\* todos.push, on the process's own vector
AddLoad(p, title, due, priority, now) ==
    /\ procs[p].pc = "start"
    /\ \E loaded \in LoadTodos(file) :
          LET new_id == NewId(loaded.todos)
              todo == TodoNew(new_id, title, DueDate(due, now), priority, now)
          IN  /\ Len(loaded.todos) < MaxTodos
              /\ new_id <= MaxId
              /\ file' = loaded.file
              /\ procs' = [procs EXCEPT ![p] = [pc |-> "loaded",
                                                 todos |-> Append(loaded.todos, todo),
                                                 new_id |-> new_id]]
    /\ UNCHANGED <<cmd, result, shown, retired, inputs, call>>

\* a save that reads the file again and appends the new todo to what it holds
AddSaveMerging(p) ==
    /\ procs[p].pc = "loaded"
    /\ \E loaded \in LoadTodos(file) :
          LET todos == Append(loaded.todos, procs[p].todos[Len(procs[p].todos)])
          IN  /\ file' = SaveTodos(todos)
              /\ shown' = todos
    /\ result' = "ok"
    /\ cmd' = [NoCmd EXCEPT !.op = "add", !.id = procs[p].new_id]
    /\ procs' = [procs EXCEPT ![p].pc = "done"]
    /\ UNCHANGED <<retired, inputs, call>>

\* the rest of add_todo: save_todos overwrites the file with the process's
\* vector, then the new id is reported and the vector displayed
AddSave(p) ==
    /\ procs[p].pc = "loaded"
    /\ file' = SaveTodos(procs[p].todos)
    /\ shown' = procs[p].todos
    /\ result' = "ok"
    /\ cmd' = [NoCmd EXCEPT !.op = "add", !.id = procs[p].new_id]
    /\ procs' = [procs EXCEPT ![p].pc = "done"]
    /\ UNCHANGED <<retired, inputs, call>>

\* the store the two processes start on: empty or holding fewer than MaxTodos todos
InitRace ==
    /\ \E n \in 0..(MaxTodos - 1) : \E bs \in [1..n -> TodoBodies] :
          file = SaveTodos(Collection(bs))
    /\ cmd = NoCmd
    /\ result = "none"
    /\ shown = << >>
    /\ retired = {}
    /\ inputs = {}
    /\ procs = NoProcs
    /\ call = NoCall

Loads ==
    \E p \in Procs, title \in Titles, priority \in Priority, now \in Times :
        AddLoad(p, title, None, priority, now)

Saves == \E p \in Procs : AddSave(p)

NextRace == Loads \/ Saves

SpecRace == InitRace /\ [][NextRace]_vars

\* what process p loaded: its vector without the todo it pushed
Base(p) == SubSeq(procs[p].todos, 1, Len(procs[p].todos) - 1)

\* the todo process p pushed
Pushed(p) == procs[p].todos[Len(procs[p].todos)]

\* ---------------------------------------------------------------- display
DATE_FORMAT == "%b %-d"

\* a rendered due date: the text pattern, and the number or the date put into it
Rendered(pattern, n, date) == [pattern |-> pattern, n |-> n, date |-> date]

\* "in Nd" up to a full week ahead: the range 2..=7
FormatDueDateWeek(due_date, now) ==
    IF IsSome(due_date)
    THEN LET date == Unwrap(due_date)
             today == DateNaive(now)
             days_until == date - today
         IN  CASE days_until = 0 -> Rendered("Today", 0, None)
               [] days_until = 1 -> Rendered("Tomorrow", 0, None)
               [] days_until \in 2..7 -> Rendered("in {}d", days_until, None)
               [] days_until > 7 -> Rendered(DATE_FORMAT, 0, Some(date))
               [] OTHER -> Rendered("{}d overdue", -days_until, None)
    ELSE Rendered("-", 0, None)

\* format_due_date, with the clock it reads as its second argument.  The match
\* arms are tried in order; the colour of the overdue text is left out.
FormatDueDate(due_date, now) ==
    IF IsSome(due_date)
    THEN LET date == Unwrap(due_date)
             today == DateNaive(now)
             days_until == date - today
         IN  CASE days_until = 0 -> Rendered("Today", 0, None)
               [] days_until = 1 -> Rendered("Tomorrow", 0, None)
               [] days_until \in 2..6 -> Rendered("in {}d", days_until, None)
               [] days_until > 6 -> Rendered(DATE_FORMAT, 0, Some(date))
               [] OTHER -> Rendered("{}d overdue", -days_until, None)
    ELSE Rendered("-", 0, None)

\* format_due_date on every due date and every clock reading of MaxDay + 1 days
Days == 0..MaxDay

Nows == 0..(TicksPerDay * (MaxDay + 1) - 1)

InitDue ==
    /\ file = NoFile
    /\ cmd = NoCmd
    /\ result = "none"
    /\ shown = << >>
    /\ retired = {}
    /\ inputs = {}
    /\ procs = NoProcs
    /\ \E due_date \in {None} \cup {Some(d) : d \in Days} :
          call = [NoCall EXCEPT !.args = <<due_date>>]

FormatDue ==
    /\ call.fn = "none"
    /\ \E now \in Nows :
          call' = [fn |-> "format_due_date", args |-> <<call.args[1], now>>,
                   ret |-> FormatDueDate(call.args[1], now)]
    /\ UNCHANGED <<file, cmd, result, shown, retired, inputs, procs>>

NextDue == FormatDue

SpecDue == InitDue /\ [][NextDue]_vars

\* ---------------------------------------------------------------- load, on any file
\* the records a file can hold besides their id: each of created_at, due_date and
\* priority present or missing, due_date also present as null
JsonBodies ==
    [title : Titles, completed : BOOLEAN,
     created_at : {None} \cup {Some(t) : t \in Times},
     due_date : {None, Some(None)} \cup {Some(Some(d)) : d \in Dates},
     priority : {None} \cup {Some(p) : p \in Priority}]

JsonWithId(b, i) ==
    [id |-> i, title |-> b.title, completed |-> b.completed,
     created_at |-> b.created_at, due_date |-> b.due_date, priority |-> b.priority]

InitLoad ==
    /\ \/ file = NoFile
       \/ \E n \in 0..MaxLen : \E bs \in [1..n -> JsonBodies] :
              file = [exists |-> TRUE, records |-> [i \in 1..n |-> JsonWithId(bs[i], i)]]
    /\ cmd = NoCmd
    /\ result = "none"
    /\ shown = << >>
    /\ retired = {}
    /\ inputs = {}
    /\ procs = NoProcs
    /\ call = NoCall

\* one call of load_todos: shown is the vector it returns
Load ==
    /\ \E loaded \in LoadTodos(file) :
          /\ file' = loaded.file
          /\ shown' = loaded.todos
    /\ result' = "ok"
    /\ cmd' = [NoCmd EXCEPT !.op = "load"]
    /\ inputs' = inputs \cup {file}
    /\ UNCHANGED <<retired, procs, call>>

NextLoad == Load

SpecLoad == InitLoad /\ [][NextLoad]_vars

\* a file of at least one record, all with id, title and completed only
IsLegacy(f) ==
    /\ f.exists
    /\ Len(f.records) > 0
    /\ \A i \in 1..Len(f.records) :
          f.records[i].created_at = None /\ f.records[i].due_date = None
              /\ f.records[i].priority = None

\* ---------------------------------------------------------------- properties of list
\* the collection in the file, as list_todos loads it
Stored == (CHOOSE loaded \in LoadTodos(file) : TRUE).todos

Range(s) == {s[i] : i \in 1..Len(s)}

\* a occurs in s at an earlier position than b
Before(s, a, b) == \E i, j \in 1..Len(s) : i < j /\ s[i] = a /\ s[j] = b

SmartListed ==
    cmd.op = "list" /\ cmd.sort = "Smart" /\ ~cmd.active_only /\ cmd.min_priority = None

\* C1: in the smart listing every incomplete todo of the collection comes before
\* every completed one, whatever their priorities, due dates and creation times
C1_IncompleteBeforeCompleted ==
    SmartListed =>
        LET stored == Stored
        IN  \A i, j \in 1..Len(stored) : LET a == stored[i]  b == stored[j] IN
                (~a.completed /\ b.completed) => Before(shown, a, b)

\* a completed urgent todo due earlier and created earlier was stored first and is
\* listed after a low-priority incomplete one
C1_Witness ==
    /\ SmartListed
    /\ Len(Stored) = 2
    /\ Stored[1].completed /\ ~Stored[2].completed
    /\ Stored[1].priority = "Urgent" /\ Stored[2].priority = "Low"
    /\ IsSome(Stored[1].due_date) /\ ~IsSome(Stored[2].due_date)
    /\ Stored[1].created_at < Stored[2].created_at
    /\ shown = <<Stored[2], Stored[1]>>

\* C2: in the smart listing, of two todos with the same completion status the one
\* with the higher priority comes first, whatever their due dates and creation times
C2_PriorityDominance ==
    SmartListed =>
        LET stored == Stored
        IN  \A i, j \in 1..Len(stored) : LET a == stored[i]  b == stored[j] IN
                (a.completed = b.completed /\ PriorityRank(a.priority) > PriorityRank(b.priority))
                    => Before(shown, a, b)

\* a normal-priority todo due and created earlier was stored first and is listed
\* after a high-priority one without a due date
C2_Witness ==
    /\ SmartListed
    /\ Len(Stored) = 2
    /\ Stored[1].completed = Stored[2].completed
    /\ Stored[1].priority = "Normal" /\ Stored[2].priority = "High"
    /\ IsSome(Stored[1].due_date) /\ ~IsSome(Stored[2].due_date)
    /\ Stored[1].created_at < Stored[2].created_at
    /\ shown = <<Stored[2], Stored[1]>>

\* C3: in the smart listing, of two todos with the same completion status and the
\* same priority, one with a due date comes before one without, and of two with
\* due dates the one with the earlier date comes first
C3_DueDateTieBreak ==
    SmartListed =>
        LET stored == Stored
        IN  \A i, j \in 1..Len(stored) : LET a == stored[i]  b == stored[j] IN
                (/\ a.completed = b.completed
                 /\ a.priority = b.priority
                 /\ IsSome(a.due_date)
                 /\ (IsSome(b.due_date) => Unwrap(a.due_date) < Unwrap(b.due_date)))
                    => Before(shown, a, b)

\* a todo without a due date, created earlier, was stored first and is listed after
\* one of the same status and priority that has a due date
C3_Witness ==
    /\ SmartListed
    /\ Len(Stored) = 2
    /\ Stored[1].completed = Stored[2].completed
    /\ Stored[1].priority = Stored[2].priority
    /\ ~IsSome(Stored[1].due_date) /\ IsSome(Stored[2].due_date)
    /\ Stored[1].created_at < Stored[2].created_at
    /\ shown = <<Stored[2], Stored[1]>>

\* C4: in the smart listing, of two todos with equal completion status, equal
\* priority and equal due date (both absent, or both the same date), the one
\* created earlier comes first
C4_CreatedAtFourthKey ==
    SmartListed =>
        LET stored == Stored
        IN  \A i, j \in 1..Len(stored) : LET a == stored[i]  b == stored[j] IN
                (/\ a.completed = b.completed
                 /\ a.priority = b.priority
                 /\ a.due_date = b.due_date
                 /\ a.created_at < b.created_at)
                    => Before(shown, a, b)

\* C5: the smart listing is a permutation of the collection, sorting it again
\* gives the same sequence, and todos that compare equal keep their stored order
C5_SortIdempotentStable ==
    SmartListed =>
        LET stored == Stored
        IN  /\ Len(shown) = Len(stored)
            /\ Range(shown) = Range(stored)
            /\ SortBy("Smart", shown) = shown
            /\ \A i, j \in 1..Len(stored) :
                  (i < j /\ TodoCmp(stored[i], stored[j]) = "Equal")
                      => Before(shown, stored[i], stored[j])

\* two todos that compare equal and differ in creation time, the later one stored
\* first, are listed in their stored order
C5_Witness ==
    /\ SmartListed
    /\ Len(Stored) = 2
    /\ TodoCmp(Stored[1], Stored[2]) = "Equal"
    /\ Stored[1].created_at > Stored[2].created_at
    /\ shown = Stored

\* C6: list --active --priority m shows exactly the todos that are in both of the
\* singly filtered results, which are the incomplete todos of priority >= m; the
\* two filters commute and keep the stored order, so todos the sort does not
\* separate are shown in their stored order
C6_FilterComposition ==
    (cmd.op = "list" /\ cmd.active_only /\ IsSome(cmd.min_priority)) =>
        LET m == Unwrap(cmd.min_priority)
            stored == Stored
            both == FilterMinPriority(FilterActive(stored), m)
        IN  /\ Range(shown) = Range(FilterActive(stored)) \cap Range(FilterMinPriority(stored, m))
            /\ Range(shown) = {t \in Range(stored) :
                                  ~t.completed /\ PriorityRank(t.priority) >= PriorityRank(m)}
            /\ Len(shown) = Cardinality(Range(shown))
            /\ FilterActive(FilterMinPriority(stored, m)) = both
            /\ \A a, b \in Range(both) : Before(both, a, b) => Before(stored, a, b)
            /\ \A a, b \in Range(shown) :
                  (Before(stored, a, b) /\ Compare(cmd.sort, a, b) = "Equal")
                      => Before(shown, a, b)

\* a listing under both filters that drops a completed urgent todo and keeps an
\* incomplete todo exactly at the threshold
C6_Witness ==
    /\ cmd.op = "list" /\ cmd.active_only /\ cmd.min_priority = Some("High")
    /\ Len(Stored) = 2
    /\ Stored[1].completed /\ Stored[1].priority = "Urgent"
    /\ ~Stored[2].completed /\ Stored[2].priority = "High"
    /\ shown = <<Stored[2]>>

\* C14: in a listing sorted by due date the due dates ascend, no todo without a due
\* date is shown before one with a due date, and the todos without a due date are
\* in ascending creation time whatever their completion status and priority
C14_DueSort ==
    (cmd.op = "list" /\ cmd.sort = "Due") =>
        \A i, j \in 1..Len(shown) :
            i < j =>
                LET a == shown[i]
                    b == shown[j]
                IN  /\ IsSome(b.due_date) => IsSome(a.due_date)
                    /\ (IsSome(a.due_date) /\ IsSome(b.due_date)) =>
                          Unwrap(a.due_date) <= Unwrap(b.due_date)
                    /\ (~IsSome(a.due_date) /\ ~IsSome(b.due_date)) =>
                          a.created_at <= b.created_at

\* ---------------------------------------------------------------- properties of the commands
\* C7: add gives the new todo the id 1 on an empty collection and otherwise the
\* largest id in the collection plus one, whatever the number of todos and the gaps
\* between their ids; it appends the todo with completed = false, reports that id
\* and leaves every todo that was in the collection as it was
C7_IdAssignment ==
    [][cmd'.op = "add" =>
          LET before == Stored
              after == Stored'
              new == after[Len(after)]
          IN  /\ Len(after) = Len(before) + 1
              /\ before = << >> => new.id = 1
              /\ before # << >> =>
                    /\ new.id - 1 \in Ids(before)
                    /\ \A x \in Ids(before) : x < new.id
              /\ ~new.completed
              /\ cmd'.id = new.id
              /\ \A i \in 1..Len(before) : after[i] = before[i]]_vars

\* an add to a collection whose only todo has id 2 (todo 1 was removed) gave id 3:
\* not count + 1 and not the gap
C7_Witness ==
    /\ cmd.op = "add" /\ cmd.id = 3 /\ result = "ok"
    /\ Len(Stored) = 2
    /\ Stored[1].id = 2 /\ Stored[2].id = 3
    /\ ~Stored[2].completed

\* C8, as stated: an id of a todo that has been removed is never given to a todo
\* added later
C8_NeverReused == cmd.op = "add" => cmd.id \notin retired

\* C8, amended: an add never gives the id of a removed todo while a todo with that
\* id or a greater one is in the collection (gaps are not filled); only an id above
\* every id left in the collection can come back
C8_GapsNotReused ==
    cmd.op = "add" =>
        LET stored == Stored
            others == Ids(SubSeq(stored, 1, Len(stored) - 1))
        IN  /\ stored[Len(stored)].id = cmd.id
            /\ \A r \in retired : (\E x \in others : x >= r) => cmd.id # r

\* todo 1 was removed while todo 2 stayed, and the next add gave id 3, not 1
C8_Witness ==
    /\ cmd.op = "add" /\ cmd.id = 3
    /\ retired = {1}
    /\ Ids(Stored) = {2, 3}

\* C9: from an empty store, after any sequence of add, done, priority, remove and
\* clear no two todos in the file have the same id
C9_UniqueIds ==
    \A i, j \in 1..Len(file.records) :
        i # j => file.records[i].id # file.records[j].id

\* two todos in the file after a removal and a later add, one of them completed
\* and re-prioritised
C9_Witness ==
    /\ Len(file.records) = 2
    /\ file.records[1].id = 2 /\ file.records[2].id = 3
    /\ file.records[1].completed
    /\ cmd.op = "priority" /\ cmd.id = 3 /\ result = "ok"
    /\ file.records[2].priority = Some("Urgent")

\* C10: done, priority and remove with an id no todo in the collection has return
\* an error and leave the file as it was
C10_NotFound ==
    [][(cmd'.op \in {"done", "priority", "remove"} /\ cmd'.id \notin Ids(Stored)) =>
          (result' = "err" /\ file' = file)]_vars

\* done with an id that two stored todos do not have returned an error
C10_Witness ==
    /\ cmd.op = "done" /\ result = "err"
    /\ Len(Stored) = 2
    /\ cmd.id \notin Ids(Stored)

\* C11: a confirmed clear leaves an existing, empty collection in the file and the
\* add that follows it assigns id 1 and stores that todo alone, whatever ids were
\* in the file before the clear; a declined clear leaves the file as it was
C11_ClearThenAdd ==
    [][/\ (cmd'.op = "clear" /\ cmd'.confirmed) => file' = SaveTodos(<< >>)
       /\ (cmd'.op = "clear" /\ ~cmd'.confirmed) => file' = file
       /\ (cmd.op = "clear" /\ cmd.confirmed /\ cmd'.op = "add") =>
              (cmd'.id = 1 /\ Ids(Stored') = {1} /\ Len(Stored') = 1)]_vars

\* a clear wiped the todos 2 and 3 (and never a todo 1), and an add after it
\* assigned id 1
C11_Witness ==
    /\ cmd.op = "add" /\ cmd.id = 1 /\ result = "ok"
    /\ retired = {2, 3}
    /\ Ids(Stored) = {1}

\* ---------------------------------------------------------------- properties of load
\* C12: a load of a file whose records all have id, title and completed only
\* returns todos with those ids, titles and completion flags, no due date and
\* priority Normal, and leaves them in the file under the current schema; every
\* later load returns the same todos as the load before it and leaves the file as
\* it was
C12_LegacyMigrationIdempotent ==
    [][cmd'.op = "load" =>
          /\ IsLegacy(file) =>
                /\ Len(shown') = Len(file.records)
                /\ \A i \in 1..Len(file.records) :
                      /\ shown'[i].id = file.records[i].id
                      /\ shown'[i].title = file.records[i].title
                      /\ shown'[i].completed = file.records[i].completed
                      /\ shown'[i].due_date = None
                      /\ shown'[i].priority = "Normal"
                /\ file' = SaveTodos(shown')
                /\ \A i \in 1..Len(file'.records) :
                      /\ IsSome(file'.records[i].created_at)
                      /\ file'.records[i].due_date = Some(None)
                      /\ file'.records[i].priority = Some("Normal")
          /\ (\E f \in inputs : IsLegacy(f)) => (shown' = shown /\ file' = file)]_vars

\* a legacy file of a completed and an incomplete record was loaded, and the
\* migrated file it left was loaded again and still holds what that load returned
C12_Witness ==
    /\ cmd.op = "load"
    /\ file \in inputs
    /\ \E f \in inputs :
          /\ IsLegacy(f)
          /\ Len(f.records) = 2
          /\ f.records[1].completed /\ ~f.records[2].completed
    /\ Len(shown) = 2
    /\ shown[1].completed /\ ~shown[2].completed
    /\ file = SaveTodos(shown)

\* ---------------------------------------------------------------- properties of display
\* C13: with days_until the due date minus today in days, format_due_date renders
\* Today for 0, Tomorrow for 1, "in Nd" with N = days_until exactly for 2..6, the
\* calendar date for every days_until above 6, "Nd overdue" with N = -days_until
\* for every negative days_until, and "-" exactly when there is no due date;
\* exactly one of the five conditions holds for each days_until
C13_DueBuckets ==
    call.fn = "format_due_date" =>
        LET due_date == call.args[1]
            today == DateNaive(call.args[2])
            out == call.ret
        IN  IF ~IsSome(due_date) THEN out.pattern = "-"
            ELSE LET days_until == Unwrap(due_date) - today
                     bucket == <<days_until = 0, days_until = 1,
                                 2 <= days_until /\ days_until <= 6,
                                 days_until > 6, days_until < 0>>
                 IN  /\ bucket[1] <=> out.pattern = "Today"
                     /\ bucket[2] <=> out.pattern = "Tomorrow"
                     /\ bucket[3] <=> (out.pattern = "in {}d" /\ out.n = days_until)
                     /\ bucket[4] <=> (out.pattern = DATE_FORMAT /\ out.date = due_date)
                     /\ bucket[5] <=> (out.pattern = "{}d overdue" /\ out.n = -days_until)
                     /\ out.pattern # "-"
                     /\ Cardinality({k \in 1..5 : bucket[k]}) = 1

\* a due date exactly 7 days after today is rendered as a calendar date
C13_Witness ==
    /\ call.fn = "format_due_date"
    /\ IsSome(call.args[1])
    /\ Unwrap(call.args[1]) - DateNaive(call.args[2]) = 7
    /\ call.ret = Rendered(DATE_FORMAT, 0, call.args[1])

\* C17: a load returns every record with the created_at, the due_date and the
\* priority the record has in the file, and leaves each of those fields in the
\* file as it was, also when the file mixes records with and without created_at
C17_LoadPreservesData ==
    [][cmd'.op = "load" =>
          /\ Len(shown') = Len(file.records)
          /\ Len(file'.records) = Len(file.records)
          /\ \A i \in 1..Len(file.records) :
                LET r == file.records[i]
                IN  /\ IsSome(r.created_at) =>
                          /\ shown'[i].created_at = Unwrap(r.created_at)
                          /\ file'.records[i].created_at = r.created_at
                    /\ IsSome(r.due_date) =>
                          /\ shown'[i].due_date = Unwrap(r.due_date)
                          /\ file'.records[i].due_date = r.due_date
                    /\ IsSome(r.priority) =>
                          /\ shown'[i].priority = Unwrap(r.priority)
                          /\ file'.records[i].priority = r.priority]_vars

\* ---------------------------------------------------------------- properties of the comparators
\* C16: for every pair of todos the comparator of main.rs and the comparator of
\* models.rs return the same ordering
C16_ComparatorsAgree == call.fn = "cmp" => call.ret.main = call.ret.models

\* ---------------------------------------------------------------- properties of concurrent adds
\* C15: when two add commands have both loaded before either saved (they loaded
\* the same collection) and both have finished, they reported the same new id and
\* the file holds what they loaded plus the todo of one of them only
C15_LostUpdate ==
    (procs[1].pc = "done" /\ procs[2].pc = "done" /\ Base(1) = Base(2)) =>
        /\ procs[1].new_id = procs[2].new_id
        /\ Stored \in {procs[1].todos, procs[2].todos}
        /\ Len(Stored) = Len(Base(1)) + 1
        /\ Ids(Stored) = Ids(Base(1)) \cup {cmd.id}

\* both processes loaded the one stored todo and reported id 2 for different new
\* todos; the file holds the todo of process 2 and not the one of process 1
C15_Witness ==
    /\ procs[1].pc = "done" /\ procs[2].pc = "done"
    /\ Len(Base(1)) = 1 /\ Base(1) = Base(2)
    /\ procs[1].new_id = 2 /\ procs[2].new_id = 2
    /\ Pushed(1) # Pushed(2)
    /\ Stored = Base(2) \o <<Pushed(2)>>
    /\ Pushed(1) \notin Range(Stored)

====
